---------------------------- MODULE Spec2Model ----------------------------
(***************************************************************************)
(* A model of disk-arranger's duplicate analysis engine (analyze.py):      *)
(* the FileDump object (content index db, path tree graph, the caches dups *)
(* and dup_paths), its loader and its queries, and the escape / unescape   *)
(* pair.                                                                   *)
(*                                                                         *)
(* Text is modelled as a sequence of one-character strings, so that the    *)
(* character-level code (split_path, commonsuffixpath, escape, unescape,   *)
(* sorted) is computed as the code computes it.                            *)
(***************************************************************************)
EXTENDS Integers, Sequences, FiniteSets, TLC

VARIABLES
    file,           \* the record stream load_file reads: a sequence of lines,
                    \* each line the sequence of its tab-separated fields
    status,         \* "new" | "loaded" | "KeyError" (load_file raised)
    db,             \* FileDump.db: insertion-ordered sequence of
                    \* [sha, size, paths]; paths an insertion-ordered
                    \* sequence of [path, info]
    graph,          \* FileDump.graph: parent path -> sequence of <<name, sha>>
    dups,           \* FileDump.dups: the cached list; its entries are
                    \* references to the holders of db, kept here as their sha
    dup_paths,      \* FileDump.dup_paths: cached list of <<signature, count>>
    op,             \* the last call: its name and arguments
    ret,            \* the value the last call returned
    calls,          \* every <<sha, size>> handed to add_path so far, in order
    first_dup_paths,\* <<r>>: r was returned by the first get_dup_paths()
                    \* since the index last changed; <<>>: no such call yet
    nadds,          \* the number of direct add_path calls so far
    x,              \* escape / unescape: the text under test
    escaped,        \* <<escape(x)>> once computed
    unescaped       \* <<unescape(escape(x))>> once computed

vars == <<file, status, db, graph, dups, dup_paths, op, ret, calls,
          first_dup_paths, nadds, x, escaped, unescaped>>

fdvars == <<file, status, db, graph, dups, dup_paths, op, ret, calls,
            first_dup_paths, nadds>>

escvars == <<x, escaped, unescaped>>

---------------------------------------------------------------------------
(* Bounds *)

MaxLines == 2       \* lines in the record stream
MaxDirLines == 4    \* file lines in a record stream of the directory scenarios
MaxCluster == 3     \* cluster sizes 1..MaxCluster (and 4096) are asked for
MaxAdds == 2        \* direct add_path calls on the loaded object
MaxLen == 4         \* length of a text handed to escape

---------------------------------------------------------------------------
(* Characters and text *)

\* The characters that occur, in code point order (what str comparison uses).
AsciiOrder ==
    <<" ", "\"", "+", "-", ".", "/", "0", "1", "2", "3", "4", "5", "6", "7",
      "8", "9", "\\", "^", "a", "b", "c", "d", "e", "f", "g", "h", "i", "l",
      "o", "p", "s", "t", "x">>

Ord(c) == CHOOSE i \in 1..Len(AsciiOrder) : AsciiOrder[i] = c

Min(a, b) == IF a <= b THEN a ELSE b

\* str < str
StrLess(a, b) ==
    LET d == {i \in 1..Min(Len(a), Len(b)) : a[i] # b[i]}
    IN  IF d = {} THEN Len(a) < Len(b)
        ELSE LET k == CHOOSE i \in d : \A j \in d : i <= j
             IN  Ord(a[k]) < Ord(b[k])

\* tuple[str, ...] < tuple[str, ...]
TupleLess(a, b) ==
    LET d == {i \in 1..Min(Len(a), Len(b)) : a[i] # b[i]}
    IN  IF d = {} THEN Len(a) < Len(b)
        ELSE LET k == CHOOSE i \in d : \A j \in d : i <= j
             IN  StrLess(a[k], b[k])

Range(s) == {s[i] : i \in 1..Len(s)}

\* sorted(s) for the order less (less[a, b]: a sorts before b): stable, as
\* list.sort is; an element's place is the number of elements that sort
\* before it.
StableSort(s, less) ==
    LET before(i) == {j \in 1..Len(s) :
                        \/ less[s[j], s[i]]
                        \/ (~less[s[i], s[j]] /\ j < i)}
    IN  [k \in 1..Len(s) |->
            s[CHOOSE i \in 1..Len(s) : Cardinality(before(i)) = k - 1]]

\* sorted(strs) for a list of str
SortStrings(strs) ==
    StableSort(strs, [a \in Range(strs), b \in Range(strs) |-> StrLess(a, b)])

Reverse(s) == [i \in 1..Len(s) |-> s[Len(s) + 1 - i]]

Seps == {"/", "\\"}

RECURSIVE Concat(_)
Concat(ss) == IF ss = <<>> THEN <<>> ELSE Head(ss) \o Concat(Tail(ss))

\* filter: the elements of s at the places in keep, in order
RECURSIVE FilterFrom(_, _, _)
FilterFrom(s, keep, i) ==
    IF i > Len(s) THEN <<>>
    ELSE (IF i \in keep THEN <<s[i]>> ELSE <<>>) \o FilterFrom(s, keep, i + 1)

Filter(s, keep) == FilterFrom(s, keep, 1)

---------------------------------------------------------------------------
(* The module-level functions of analyze.py *)

\* str.replace(" ", "^s") after str.replace("^", "^^"): both replace single
\* characters, each occurrence on its own.
ReplaceChar(t, c, by) == Concat([i \in 1..Len(t) |-> IF t[i] = c THEN by ELSE <<t[i]>>])

escape(t) == ReplaceChar(ReplaceChar(t, "^", <<"^", "^">>), " ", <<"^", "s">>)

\* the length of the run of carets of t that starts at i
RECURSIVE CaretRun(_, _)
CaretRun(t, i) == IF i <= Len(t) /\ t[i] = "^" THEN 1 + CaretRun(t, i + 1) ELSE 0

\* re.sub(r"(?<!\^)((\^\^)*)\^s", r"\1 ", t), scanning from position i.  A
\* match starts at i when t[i-1] is no caret and an even number of carets
\* is followed by "^s": the carets of the match are then the whole run at i
\* (the character after "^" must be "s"), so the run is odd and "s" follows.
\* The match is replaced by its leading pairs and a space, and the scan goes
\* on after it; without a match one character is copied.
RECURSIVE SubEscapedSpace(_, _)
SubEscapedSpace(t, i) ==
    IF i > Len(t) THEN <<>>
    ELSE LET r == CaretRun(t, i)
             matches == /\ (i = 1 \/ t[i - 1] # "^")
                        /\ r % 2 = 1
                        /\ i + r <= Len(t)
                        /\ t[i + r] = "s"
         IN  IF matches
             THEN [k \in 1..(r - 1) |-> "^"] \o <<" ">> \o SubEscapedSpace(t, i + r + 1)
             ELSE <<t[i]>> \o SubEscapedSpace(t, i + 1)

\* str.replace("^^", "^"): non-overlapping occurrences, left to right
RECURSIVE CollapseCarets(_, _)
CollapseCarets(t, i) ==
    IF i > Len(t) THEN <<>>
    ELSE IF i < Len(t) /\ t[i] = "^" /\ t[i + 1] = "^"
         THEN <<"^">> \o CollapseCarets(t, i + 2)
         ELSE <<t[i]>> \o CollapseCarets(t, i + 1)

\* A buggy unescape that turns every "^s" into a space.
RECURSIVE SubEverySpace(_, _)
SubEverySpace(t, i) ==
    IF i > Len(t) THEN <<>>
    ELSE IF i < Len(t) /\ t[i] = "^" /\ t[i + 1] = "s"
         THEN <<" ">> \o SubEverySpace(t, i + 2)
         ELSE <<t[i]>> \o SubEverySpace(t, i + 1)

unescape_every(t) == <<"\"">> \o CollapseCarets(SubEverySpace(t, 1), 1) \o <<"\"">>

unescape(t) == <<"\"">> \o CollapseCarets(SubEscapedSpace(t, 1), 1) \o <<"\"">>

\* split_path: (parent path, name, separator)
split_path(path0) ==
    LET path == IF path0 # <<>> /\ path0[Len(path0)] \in Seps
                THEN SubSeq(path0, 1, Len(path0) - 1) ELSE path0
        hits == {i \in 1..Len(path) : path[i] \in Seps}
    IN  IF hits = {} THEN <<<<>>, path, <<>>>>
        ELSE LET first == CHOOSE i \in hits : \A j \in hits : i <= j
                 matched_separator == path[first]
                 same == {i \in 1..Len(path) : path[i] = matched_separator}
                 last == CHOOSE i \in same : \A j \in same : j <= i
             IN  << SubSeq(path, 1, last),
                    SubSeq(path, last + 1, Len(path)),
                    <<matched_separator>> >>

get_path_parent(path) == split_path(path)[1]

\* os.path.commonprefix: the common prefix of the least and the greatest word
commonprefix(words) ==
    IF words = <<>> THEN <<>>
    ELSE LET W == {words[i] : i \in 1..Len(words)}
             s1 == CHOOSE w \in W : \A v \in W : ~StrLess(v, w)
             s2 == CHOOSE w \in W : \A v \in W : ~StrLess(w, v)
             d == {i \in 1..Len(s1) : i > Len(s2) \/ s1[i] # s2[i]}
         IN  IF d = {} THEN s1
             ELSE SubSeq(s1, 1, (CHOOSE i \in d : \A j \in d : i <= j) - 1)

\* s.rsplit("/", 1)[0]
RsplitHead(s) ==
    LET hits == {i \in 1..Len(s) : s[i] = "/"}
    IN  IF hits = {} THEN s
        ELSE SubSeq(s, 1, (CHOOSE i \in hits : \A j \in hits : j <= i) - 1)

\* A buggy commonsuffixpath that does not cut back to a segment boundary.
commonsuffixpath_uncut(words) ==
    Len(commonprefix([i \in 1..Len(words) |->
            Reverse([k \in 1..Len(words[i]) |->
                IF words[i][k] \in Seps THEN "/" ELSE words[i][k]])]))

commonsuffixpath(words) ==
    Len(RsplitHead(commonprefix([i \in 1..Len(words) |->
            Reverse([k \in 1..Len(words[i]) |->
                IF words[i][k] \in Seps THEN "/" ELSE words[i][k]])])))

\* int(ssize): an optional sign and decimal digits (the texts the scanner
\* writes); anything else raises ValueError
Digits == <<"0", "1", "2", "3", "4", "5", "6", "7", "8", "9">>

Unsigned(t) == IF t # <<>> /\ t[1] \in {"+", "-"} THEN Tail(t) ELSE t

IsInt(t) ==
    /\ Unsigned(t) # <<>>
    /\ \A i \in 1..Len(Unsigned(t)) : \E d \in 1..10 : Digits[d] = Unsigned(t)[i]

RECURSIVE ParseDigits(_)
ParseDigits(t) ==
    IF t = <<>> THEN 0
    ELSE 10 * ParseDigits(SubSeq(t, 1, Len(t) - 1))
         + (CHOOSE d \in 1..10 : Digits[d] = t[Len(t)]) - 1

ParseInt(t) == IF t[1] = "-" THEN 0 - ParseDigits(Unsigned(t)) ELSE ParseDigits(Unsigned(t))

---------------------------------------------------------------------------
(* SameFileHolder and FileDump *)

Failed == <<"f", "a", "i", "l", "e", "d">>

\* SameFileHolder.wasting_space; // is floor division, as \div is
wasting_space(sfh, cluster_size) ==
    ((sfh.size + cluster_size - 1) \div cluster_size) * cluster_size
        * (Len(sfh.paths) - 1)

\* elementwise_tuple_sum: <<>> stands for None, <<t>> for the tuple t.
\* map(lambda *e: sum(e), *l) stops with the shortest tuple.
RECURSIVE SumOver(_, _)
SumOver(l, k) == IF l = <<>> THEN 0 ELSE Head(l)[k] + SumOver(Tail(l), k)

elementwise_tuple_sum(l) ==
    IF l = <<>> THEN <<>>
    ELSE LET S == {Len(l[i]) : i \in 1..Len(l)}
             n == CHOOSE m \in S : \A o \in S : m <= o
         IN  << [k \in 1..n |-> SumOver(l, k)] >>

\* FileDump.__init__
EmptyGraph == [p \in {} |-> <<>>]

NewFileDump == [db |-> <<>>, graph |-> EmptyGraph]

HasSha(d, sha) == \E i \in 1..Len(d) : d[i].sha = sha

Holder(d, sha) == d[CHOOSE i \in 1..Len(d) : d[i].sha = sha]

\* paths[path] = timeinfo on a dict: a new key goes last, a known key keeps
\* its place
DictSet(paths, path, timeinfo) ==
    IF \E i \in 1..Len(paths) : paths[i].path = path
    THEN [i \in 1..Len(paths) |->
            IF paths[i].path = path THEN [path |-> path, info |-> timeinfo]
            ELSE paths[i]]
    ELSE Append(paths, [path |-> path, info |-> timeinfo])

Keys(paths) == [i \in 1..Len(paths) |-> paths[i].path]

\* A buggy add_path that takes the size of the latest record.
add_path_last_size(st, path, sha, size, timeinfo) ==
    LET sp == split_path(path)
        parent == sp[1]
        child == sp[2]
        sep == sp[3]
        g0 == IF parent \in DOMAIN st.graph THEN st.graph
              ELSE st.graph @@ (parent :> <<>>)
        g1 == [g0 EXCEPT ![parent] =
                 Append(@, <<child \o (IF sha # <<>> THEN <<>> ELSE sep), sha>>)]
    IN  IF sha = Failed THEN st
        ELSE IF ~HasSha(st.db, sha)
        THEN [db |-> Append(st.db, [sha |-> sha, size |-> size,
                        paths |-> <<[path |-> path, info |-> timeinfo]>>]),
              graph |-> g1]
        ELSE [db |-> [i \in 1..Len(st.db) |->
                        IF st.db[i].sha = sha
                        THEN [sha |-> sha, size |-> size,
                              paths |-> DictSet(st.db[i].paths, path, timeinfo)]
                        ELSE st.db[i]],
              graph |-> g1]

\* FileDump.add_path.  A size that differs from the stored one is reported on
\* stderr and nothing else happens.
add_path(st, path, sha, size, timeinfo) ==
    LET sp == split_path(path)
        parent == sp[1]
        child == sp[2]
        sep == sp[3]
        g0 == IF parent \in DOMAIN st.graph THEN st.graph
              ELSE st.graph @@ (parent :> <<>>)
        g1 == [g0 EXCEPT ![parent] =
                 Append(@, <<child \o (IF sha # <<>> THEN <<>> ELSE sep), sha>>)]
    IN  IF sha = Failed THEN st
        ELSE IF ~HasSha(st.db, sha)
        THEN [db |-> Append(st.db, [sha |-> sha, size |-> size,
                        paths |-> <<[path |-> path, info |-> timeinfo]>>]),
              graph |-> g1]
        ELSE [db |-> [i \in 1..Len(st.db) |->
                        IF st.db[i].sha = sha
                        THEN [sha |-> sha, size |-> st.db[i].size,
                              paths |-> DictSet(st.db[i].paths, path, timeinfo)]
                        ELSE st.db[i]],
              graph |-> g1]

\* path, sha, ssize, atime, mtime, *lctime = line.rstrip().split("\t") and
\* int(ssize): what raises ValueError
RaisesValueError(line) == Len(line) < 5 \/ ~IsInt(line[3])

\* FileInfo(atime, mtime, ctime); ctime is <<>> for None, <<c>> otherwise
FileInfo(line) ==
    [atime |-> line[4], mtime |-> line[5],
     ctime |-> IF Len(line) > 5 THEN <<line[6]>> ELSE <<>>]

\* the number of lines the loop of load_file handles: the try statement
\* encloses the loop, so the first ValueError ends it
RECURSIVE Handled(_, _)
Handled(lines, i) ==
    IF i > Len(lines) \/ RaisesValueError(lines[i]) THEN i - 1
    ELSE Handled(lines, i + 1)

\* the loop of load_file
RECURSIVE load_lines(_, _, _)
load_lines(st, lines, i) ==
    IF i > Handled(lines, 1) THEN st
    ELSE load_lines(
            add_path(st, escape(lines[i][1]), lines[i][2], ParseInt(lines[i][3]),
                     FileInfo(lines[i])),
            lines, i + 1)

\* list.remove(e): the first occurrence goes
ListRemove(l, e) ==
    LET k == CHOOSE i \in 1..Len(l) : l[i] = e /\ \A j \in 1..(i - 1) : l[j] # e
    IN  SubSeq(l, 1, k - 1) \o SubSeq(l, k + 1, Len(l))

Contains(l, e) == \E i \in 1..Len(l) : l[i] = e

DotEntry == << <<".">>, <<>> >>

RootMarkers == << <<".", "/">>, <<".", "\\">> >>

\* the root bookkeeping of load_file, on a graph that has the key ""
RootBookkeeping(g) ==
    LET r0 == IF Contains(g[<<>>], DotEntry) THEN ListRemove(g[<<>>], DotEntry)
              ELSE g[<<>>]
        r1 == IF RootMarkers[1] \in DOMAIN g
              THEN Append(r0, <<RootMarkers[1], <<>>>>) ELSE r0
        r2 == IF RootMarkers[2] \in DOMAIN g
              THEN Append(r1, <<RootMarkers[2], <<>>>>) ELSE r1
    IN  [g EXCEPT ![<<>>] = r2]

\* FileDump.load_file: self.graph[""] raises KeyError when no record had the
\* empty parent path
load_file(st, lines) ==
    LET after == load_lines(st, lines, 1)
    IN  IF <<>> \notin DOMAIN after.graph
        THEN [db |-> after.db, graph |-> after.graph, raised |-> TRUE]
        ELSE [db |-> after.db, graph |-> RootBookkeeping(after.graph),
              raised |-> FALSE]

---------------------------------------------------------------------------
(* The queries of FileDump *)

\* the holders a list of references (shas) points at
Deref(d, refs) == [i \in 1..Len(refs) |-> Holder(d, refs[i])]

\* A buggy get_sorted_dups that sorts ascending.
get_sorted_dups_ascending(d, cache, force) ==
    IF force \/ cache = <<>>
    THEN LET is_not_unique == {i \in 1..Len(d) : Len(d[i].paths) >= 2}
             found == Filter(d, is_not_unique)
             sorted == StableSort(found,
                          [a \in Range(found), b \in Range(found) |->
                              wasting_space(a, 1) < wasting_space(b, 1)])
         IN  [i \in 1..Len(sorted) |-> sorted[i].sha]
    ELSE cache

\* FileDump.get_sorted_dups: the new value of self.dups, which is also what
\* is returned.  sorted(..., reverse=True) keeps equal keys in their order.
get_sorted_dups(d, cache, force) ==
    IF force \/ cache = <<>>
    THEN LET is_not_unique == {i \in 1..Len(d) : Len(d[i].paths) >= 2}
             found == Filter(d, is_not_unique)
             sorted == StableSort(found,
                          [a \in Range(found), b \in Range(found) |->
                              wasting_space(a, 1) > wasting_space(b, 1)])
         IN  [i \in 1..Len(sorted) |-> sorted[i].sha]
    ELSE cache

\* A buggy get_wasted_space that rounds the size down to whole clusters.
get_wasted_space_floor(d, cache, cluster_sizes) ==
    LET ds == Deref(d, get_sorted_dups(d, cache, FALSE))
        get_dups_info(sfh) ==
            [k \in 1..Len(cluster_sizes) |->
                (sfh.size \div cluster_sizes[k]) * cluster_sizes[k]
                    * (Len(sfh.paths) - 1)]
        r == elementwise_tuple_sum([i \in 1..Len(ds) |-> get_dups_info(ds[i])])
    IN  IF r = <<>> \/ r[1] = <<>> THEN <<0, 0>> ELSE r[1]

\* FileDump.get_wasted_space: the value returned (self.dups becomes
\* get_sorted_dups(d, cache, FALSE))
get_wasted_space(d, cache, cluster_sizes) ==
    LET ds == Deref(d, get_sorted_dups(d, cache, FALSE))
        get_dups_info(sfh) ==
            [k \in 1..Len(cluster_sizes) |-> wasting_space(sfh, cluster_sizes[k])]
        r == elementwise_tuple_sum([i \in 1..Len(ds) |-> get_dups_info(ds[i])])
    IN  IF r = <<>> \/ r[1] = <<>> THEN <<0, 0>> ELSE r[1]

\* A buggy best that never stops: it returns every entry of the list.
best_without_break(d, cache) ==
    LET ds == Deref(d, get_sorted_dups(d, cache, FALSE))
        wasted(i) == (Len(ds[i].paths) - 1) * ds[i].size
    IN  [i \in 1..Len(ds) |-> <<wasted(i), ds[i].sha, Keys(ds[i].paths)>>]

\* FileDump.best: the value returned, without the display text of the size
\* (self.dups becomes get_sorted_dups(d, cache, FALSE))
best(d, cache) ==
    LET ds == Deref(d, get_sorted_dups(d, cache, FALSE))
        wasted(i) == (Len(ds[i].paths) - 1) * ds[i].size
        stops == {i \in 1..Len(ds) : wasted(i) <= 0}
        n == IF stops = {} THEN Len(ds)
             ELSE (CHOOSE i \in stops : \A j \in stops : i <= j) - 1
    IN  [i \in 1..n |-> <<wasted(i), ds[i].sha, Keys(ds[i].paths)>>]

SepCount(p) == Cardinality({i \in 1..Len(p) : p[i] \in Seps})

\* get_dup_paths.find_not_common_dir_tuple
find_not_common_dir_tuple(paths0) ==
    LET opaths == [i \in 1..Len(paths0) |-> get_path_parent(paths0[i])]
        suffix == commonsuffixpath(opaths)
        paths == [i \in 1..Len(opaths) |->
                    IF suffix \in {0, Len(opaths[i])} THEN opaths[i]
                    ELSE SubSeq(opaths[i], 1, Len(opaths[i]) - suffix)]
    IN  SortStrings(IF SepCount(paths[1]) <= 1 THEN opaths ELSE paths)

\* Counter(l).items(): each distinct element with its count, in the order of
\* first occurrence
CounterItems(l) ==
    LET firsts == Filter([i \in 1..Len(l) |-> i],
                         {i \in 1..Len(l) : \A j \in 1..(i - 1) : l[j] # l[i]})
    IN  [k \in 1..Len(firsts) |->
            << l[firsts[k]],
               Cardinality({j \in 1..Len(l) : l[j] = l[firsts[k]]}) >>]

\* (tuple, int) < (tuple, int)
ItemLess(a, b) == TupleLess(a[1], b[1]) \/ (a[1] = b[1] /\ a[2] < b[2])

\* sorted(items) for a list of (tuple, int)
SortItems(items) ==
    StableSort(items, [a \in Range(items), b \in Range(items) |-> ItemLess(a, b)])

\* A buggy get_dup_paths that keeps the signatures seen once.
get_dup_paths_keep_all(d, cache, dupcache, force) ==
    IF force \/ dupcache = <<>>
    THEN LET ds == Deref(d, cache)
             parent_paths ==
                [i \in 1..Len(ds) |-> find_not_common_dir_tuple(Keys(ds[i].paths))]
             items == CounterItems(parent_paths)
         IN  SortItems(items)
    ELSE dupcache

\* A buggy get_dup_paths that leaves the signatures in the order of Counter.
get_dup_paths_unsorted(d, cache, dupcache, force) ==
    IF force \/ dupcache = <<>>
    THEN LET ds == Deref(d, cache)
             parent_paths ==
                [i \in 1..Len(ds) |-> find_not_common_dir_tuple(Keys(ds[i].paths))]
             items == CounterItems(parent_paths)
         IN  Filter(items, {i \in 1..Len(items) : items[i][2] > 1})
    ELSE dupcache

\* FileDump.get_dup_paths: the new value of self.dup_paths, which is also
\* what is returned.  It reads self.dups as it is.
get_dup_paths(d, cache, dupcache, force) ==
    IF force \/ dupcache = <<>>
    THEN LET ds == Deref(d, cache)
             parent_paths ==
                [i \in 1..Len(ds) |-> find_not_common_dir_tuple(Keys(ds[i].paths))]
             items == CounterItems(parent_paths)
         IN  SortItems(Filter(items, {i \in 1..Len(items) : items[i][2] > 1}))
    ELSE dupcache

---------------------------------------------------------------------------
(* The record streams and records the model draws from *)

T == <<"t">>
H0 == <<"h", "0">>
H1 == <<"h", "1">>
H2 == <<"h", "2">>
H3 == <<"h", "3">>
H4 == <<"h", "4">>

\* a line: path, sha, ssize, atime, mtime and, when the platform has it, ctime
LDot == << <<".">>, <<>>, <<"0">>, T, T >>
LA == << <<"a">>, H1, <<"3">>, T, T >>
LC == << <<"c", " ", "c">>, H1, <<"2">>, T, T, T >>
LD == << <<"d">>, H0, <<"3">>, T, T >>
LShort == << <<"e">>, H0, <<"3">> >>
LNaN == << <<"e">>, H0, <<"x">>, T, T >>
LFail == << <<"f">>, Failed, <<"0">>, T, T >>

LinePool == {LDot, LA, LC, LD, LShort, LNaN, LFail}

Files == UNION {[1..k -> LinePool] : k \in 0..MaxLines}

\* two groups in the directories a/b/x/ and c/x/
D1 == << <<"a", "/", "b", "/", "x", "/", "f">>, H1, <<"3">>, T, T >>
D2 == << <<"c", "/", "x", "/", "f">>, H1, <<"3">>, T, T >>
D3 == << <<"a", "/", "b", "/", "x", "/", "g">>, H2, <<"2">>, T, T >>
D4 == << <<"c", "/", "x", "/", "g">>, H2, <<"2">>, T, T >>

DirLinePool == {D1, D2, D3, D4}

Rec(path, sha) == << path, sha, <<"1">>, T, T >>

\* three groups in d/ and e/, two groups in a/ and c/
FileCounts ==
    << LDot,
       Rec(<<"d", "/", "f">>, H0), Rec(<<"e", "/", "f">>, H0),
       Rec(<<"a", "/", "f">>, H1), Rec(<<"c", "/", "f">>, H1),
       Rec(<<"d", "/", "g">>, H2), Rec(<<"e", "/", "g">>, H2),
       Rec(<<"a", "/", "g">>, H3), Rec(<<"c", "/", "g">>, H3),
       Rec(<<"d", "/", "h">>, H4), Rec(<<"e", "/", "h">>, H4) >>

GitDir(p) == <<"p", p, "/", ".", "g", "i", "t", "/", "o", "/", "0", "0", "/">>

\* p1/.git/o/00/f, p2/.git/o/00/f and p3/.git/o/00/f with one content hash
FileGit ==
    << LDot, Rec(GitDir("1") \o <<"f">>, H1), Rec(GitDir("2") \o <<"f">>, H1),
       Rec(GitDir("3") \o <<"f">>, H1) >>

\* the scanner writes the start directory first
DirFiles ==
    {<<LDot>> \o f : f \in UNION {[1..k -> DirLinePool] : k \in 0..MaxDirLines}}
        \cup {FileCounts, FileGit}

\* the records add_path is called with directly
AddPool ==
    { [path |-> <<"e">>, sha |-> H0, size |-> 3],
      [path |-> <<"b">>, sha |-> H1, size |-> 5],
      [path |-> <<"g">>, sha |-> <<>>, size |-> 0] }

NoInfo == [atime |-> T, mtime |-> T, ctime |-> <<>>]

ClusterSizes == (1..MaxCluster) \cup {4096}

Alphabet == {" ", "^", "s", "a"}

Texts == UNION {[1..k -> Alphabet] : k \in 0..MaxLen}

---------------------------------------------------------------------------
(* The state machine *)

InitFileDump ==
    /\ status = "new"
    /\ db = NewFileDump.db
    /\ graph = NewFileDump.graph
    /\ dups = <<>>
    /\ dup_paths = <<>>
    /\ op = <<"__init__">>
    /\ ret = <<>>
    /\ calls = <<>>
    /\ first_dup_paths = <<>>
    /\ nadds = 0

InitText == x = <<>> /\ escaped = <<>> /\ unescaped = <<>>

Init == file \in Files /\ InitFileDump /\ InitText

InitDirs == file \in DirFiles /\ InitFileDump /\ InitText

InitEscape ==
    /\ file = <<>>
    /\ InitFileDump
    /\ x \in Texts
    /\ escaped = <<>>
    /\ unescaped = <<>>

Usable == status \in {"new", "loaded"}

\* fd = FileDump(); fd.load_file("filedump.txt")
LoadFile ==
    /\ status = "new"
    /\ db = <<>>
    /\ LET r == load_file([db |-> db, graph |-> graph], file)
       IN  /\ db' = r.db
           /\ graph' = r.graph
           /\ status' = IF r.raised THEN "KeyError" ELSE "loaded"
    /\ calls' = calls \o [i \in 1..Handled(file, 1) |->
                            <<file[i][2], ParseInt(file[i][3])>>]
    /\ op' = <<"load_file">>
    /\ ret' = <<>>
    /\ first_dup_paths' = <<>>
    /\ UNCHANGED <<file, dups, dup_paths, nadds, escvars>>

\* fd.add_path(...) on the loaded object
AddPath(r) ==
    /\ status = "loaded"
    /\ nadds < MaxAdds
    /\ LET st == add_path([db |-> db, graph |-> graph], r.path, r.sha, r.size, NoInfo)
       IN  db' = st.db /\ graph' = st.graph
    /\ calls' = Append(calls, <<r.sha, r.size>>)
    /\ nadds' = nadds + 1
    /\ op' = <<"add_path">>
    /\ ret' = <<>>
    /\ first_dup_paths' = <<>>
    /\ UNCHANGED <<file, status, dups, dup_paths, escvars>>

GetSortedDups(force) ==
    /\ Usable
    /\ dups' = get_sorted_dups(db, dups, force)
    /\ op' = <<"get_sorted_dups", force, force \/ dups = <<>>>>
    /\ ret' = Deref(db, dups')
    /\ UNCHANGED <<file, status, db, graph, dup_paths, calls, first_dup_paths,
                   nadds, escvars>>

GetWastedSpace(cluster_sizes) ==
    /\ Usable
    /\ dups' = get_sorted_dups(db, dups, FALSE)
    /\ op' = <<"get_wasted_space", cluster_sizes>>
    /\ ret' = get_wasted_space(db, dups, cluster_sizes)
    /\ UNCHANGED <<file, status, db, graph, dup_paths, calls, first_dup_paths,
                   nadds, escvars>>

Best ==
    /\ Usable
    /\ dups' = get_sorted_dups(db, dups, FALSE)
    /\ op' = <<"best">>
    /\ ret' = best(db, dups)
    /\ UNCHANGED <<file, status, db, graph, dup_paths, calls, first_dup_paths,
                   nadds, escvars>>

GetDupPaths(force) ==
    /\ Usable
    /\ dup_paths' = get_dup_paths(db, dups, dup_paths, force)
    /\ op' = <<"get_dup_paths", force, force \/ dup_paths = <<>>>>
    /\ ret' = dup_paths'
    /\ first_dup_paths' = IF ~force /\ first_dup_paths = <<>> THEN <<dup_paths'>>
                          ELSE first_dup_paths
    /\ UNCHANGED <<file, status, db, graph, dups, calls, nadds, escvars>>

DefaultClusterSizes == <<1, 4096>>

\* the object in use: loaded once, then queried, with add_path at any time
Next ==
    \/ LoadFile
    \/ \E r \in AddPool : AddPath(r)
    \/ \E force \in BOOLEAN : GetSortedDups(force)
    \/ GetWastedSpace(DefaultClusterSizes)
    \/ Best
    \/ \E force \in BOOLEAN : GetDupPaths(force)

Spec == Init /\ [][Next]_vars

\* the index loaded and then only queried
NextDirs ==
    \/ LoadFile
    \/ \E force \in BOOLEAN : GetSortedDups(force)
    \/ GetWastedSpace(DefaultClusterSizes)
    \/ Best
    \/ \E force \in BOOLEAN : GetDupPaths(force)

SpecDirs == InitDirs /\ [][NextDirs]_vars

\* the index loaded and get_wasted_space asked for any two cluster sizes
NextWasted ==
    \/ LoadFile
    \/ \E c1, c2 \in ClusterSizes : GetWastedSpace(<<c1, c2>>)

SpecWasted == InitDirs /\ [][NextWasted]_vars

Escape ==
    /\ escaped = <<>>
    /\ escaped' = <<escape(x)>>
    /\ UNCHANGED <<fdvars, x, unescaped>>

Unescape ==
    /\ escaped # <<>>
    /\ unescaped = <<>>
    /\ unescaped' = <<unescape(escaped[1])>>
    /\ UNCHANGED <<fdvars, x, escaped>>

NextEscape == Escape \/ Unescape

SpecEscape == InitEscape /\ [][NextEscape]_vars

---------------------------------------------------------------------------
(* The claims *)

Called(name) == op[1] = name

\* the lines of the stream that raise no ValueError
CleanLines(lines) ==
    Filter(lines, {i \in 1..Len(lines) : ~RaisesValueError(lines[i])})

\* C1: a line with the wrong number of fields is skipped and parsing goes on:
\* after load_file the index and the path tree are what loading the stream
\* without its malformed lines gives.
C1_MalformedLineIsSkipped ==
    (Called("load_file") /\ nadds = 0) =>
        LET r == load_file(NewFileDump, CleanLines(file))
        IN  db = r.db /\ graph = r.graph

\* the sizes add_path was called with for sha, in call order
SizesOf(sha) ==
    LET mine == Filter(calls, {i \in 1..Len(calls) : calls[i][1] = sha})
    IN  [i \in 1..Len(mine) |-> mine[i][2]]

C3_LoadNeverAborts == status # "KeyError"

\* size * (count - 1) of a holder
Wasted1(sfh) == sfh.size * (Len(sfh.paths) - 1)

DbIndex(sha) == CHOOSE i \in 1..Len(db) : db[i].sha = sha

\* the list holds exactly the groups with at least two paths, each once
ExactlyTheDuplicates(l) ==
    /\ \A i \in 1..Len(l) : Contains(db, l[i]) /\ Len(l[i].paths) >= 2
    /\ \A i \in 1..Len(db) : Len(db[i].paths) >= 2 => Contains(l, db[i])
    /\ \A i, j \in 1..Len(l) : l[i].sha = l[j].sha => i = j

\* C4 as claimed: a get_sorted_dups call that computes the list returns
\* exactly the groups with at least 2 paths, descending by size*(count-1),
\* groups with equal wasted ascending by hash.
C4_TiesAscendingByHash ==
    (Called("get_sorted_dups") /\ op[3]) =>
        /\ ExactlyTheDuplicates(ret)
        /\ \A i, j \in 1..Len(ret) : i < j =>
              \/ Wasted1(ret[i]) > Wasted1(ret[j])
              \/ /\ Wasted1(ret[i]) = Wasted1(ret[j])
                 /\ StrLess(ret[i].sha, ret[j].sha)

\* C4 as amended: a get_sorted_dups call that computes the list (force, or
\* an empty cache) returns exactly the groups with at least 2 paths,
\* descending by size*(count-1); groups with equal wasted come in the order
\* in which their hashes were first added to the index.
C4_TiesInInsertionOrder ==
    (Called("get_sorted_dups") /\ op[3]) =>
        /\ ExactlyTheDuplicates(ret)
        /\ \A i, j \in 1..Len(ret) : i < j =>
              \/ Wasted1(ret[i]) > Wasted1(ret[j])
              \/ /\ Wasted1(ret[i]) = Wasted1(ret[j])
                 /\ DbIndex(ret[i].sha) < DbIndex(ret[j].sha)

\* two groups of equal wasted, the greater hash added first, were returned
C4_Witness ==
    /\ Called("get_sorted_dups") /\ op[3]
    /\ \E i, j \in 1..Len(ret) :
          /\ i < j
          /\ Wasted1(ret[i]) = Wasted1(ret[j])
          /\ StrLess(ret[j].sha, ret[i].sha)

\* the least multiple of c that is no less than size: ceil(size/c)*c
CeilToCluster(size, c) ==
    CHOOSE m \in size..(size + c) : m % c = 0 /\ m - c < size

RECURSIVE TotalWasted(_, _)
TotalWasted(l, c) ==
    IF l = <<>> THEN 0
    ELSE CeilToCluster(Head(l).size, c) * (Len(Head(l).paths) - 1)
         + TotalWasted(Tail(l), c)

\* C5 as claimed: for cluster sizes c1 <= c2 the total for c1 is no more
\* than the total for c2.
C5_MonotoneInClusterSize ==
    (Called("get_wasted_space") /\ op[2][1] <= op[2][2]) => ret[1] <= ret[2]

\* C5 as amended: each duplicate group contributes ceil(size/c)*c*(count-1)
\* to the total for c, and for cluster sizes c1, c2 where c1 divides c2 the
\* total for c1 is no more than the total for c2.
C5_MonotoneWhenDividing ==
    Called("get_wasted_space") =>
        /\ \A k \in 1..2 : ret[k] = TotalWasted(Deref(db, dups), op[2][k])
        /\ op[2][2] % op[2][1] = 0 => ret[1] <= ret[2]

\* totals for c1 < c2 with c1 dividing c2, over a non-empty duplicate list
C5_Witness ==
    /\ Called("get_wasted_space")
    /\ op[2][1] > 1 /\ op[2][1] < op[2][2] /\ op[2][2] % op[2][1] = 0
    /\ 0 < ret[1] /\ ret[1] < ret[2]

\* C6: the value the first get_dup_paths() call after load returned equals
\* the value get_dup_paths(force=True) returns later with no add_path in
\* between, whatever queries ran before or between the two.
C6_ForcedEqualsFirst ==
    (Called("get_dup_paths") /\ op[2] /\ first_dup_paths # <<>>) =>
        ret = first_dup_paths[1]

\* the number of groups of the duplicate list whose signature is sig
Occurrences(Sig(_), sig) ==
    Cardinality({i \in 1..Len(dups) : Sig(Keys(Holder(db, dups[i]).paths)) = sig})

\* the list holds exactly the signatures, as Sig gives them, that occur in
\* more than one group of the duplicate list, each once and with its count
ExactlyTheRepeated(l, Sig(_)) ==
    /\ \A i \in 1..Len(l) : l[i][2] > 1 /\ l[i][2] = Occurrences(Sig, l[i][1])
    /\ \A i \in 1..Len(dups) :
          LET sig == Sig(Keys(Holder(db, dups[i]).paths))
          IN  Occurrences(Sig, sig) > 1 => \E k \in 1..Len(l) : l[k][1] = sig
    /\ \A i, j \in 1..Len(l) : l[i][1] = l[j][1] => i = j

\* C7 as claimed: get_dup_paths returns only signatures that occur in more
\* than one duplicate group, descending by count, equal counts in the
\* lexicographic order of the signature.
C7_DescendingByCount ==
    Called("get_dup_paths") =>
        /\ \A i \in 1..Len(ret) : ret[i][2] > 1
        /\ \A i, j \in 1..Len(ret) : i < j =>
              \/ ret[i][2] > ret[j][2]
              \/ ret[i][2] = ret[j][2] /\ TupleLess(ret[i][1], ret[j][1])

\* C7 as amended: get_dup_paths returns only signatures that occur in more
\* than one duplicate group (a call that computes the list returns all of
\* them, each with its count), in the ascending lexicographic order of the
\* signature tuple, whatever the counts.
C7_AscendingBySignature ==
    Called("get_dup_paths") =>
        /\ \A i \in 1..Len(ret) : ret[i][2] > 1
        /\ \A i, j \in 1..Len(ret) : i < j => TupleLess(ret[i][1], ret[j][1])
        /\ op[3] => ExactlyTheRepeated(ret, find_not_common_dir_tuple)

\* a signature of smaller count was returned before one of greater count
C7_Witness ==
    /\ Called("get_dup_paths")
    /\ \E i, j \in 1..Len(ret) : i < j /\ ret[i][2] < ret[j][2]

IsSepChar(c) == c = "/" \/ c = "\\"

\* the directories end in the same k characters, separators taken as equal
ShareSuffix(dirs, k) ==
    \A i \in 1..Len(dirs) :
        /\ k <= Len(dirs[i])
        /\ \A n \in 0..(k - 1) :
              LET a == dirs[i][Len(dirs[i]) - n]
                  b == dirs[1][Len(dirs[1]) - n]
              IN  a = b \/ (IsSepChar(a) /\ IsSepChar(b))

\* the shared trailing path suffix: of the longest common suffix, what
\* follows its first separator (all of it when it has none)
SharedSuffixLen(dirs) ==
    LET c == CHOOSE k \in 0..Len(dirs[1]) :
                /\ ShareSuffix(dirs, k)
                /\ \A m \in (k + 1)..Len(dirs[1]) : ~ShareSuffix(dirs, m)
        cuts == {k \in 0..(c - 1) : IsSepChar(dirs[1][Len(dirs[1]) - k])}
    IN  IF cuts = {} THEN c ELSE CHOOSE k \in cuts : \A m \in cuts : m <= k

\* the directories with the shared suffix stripped (a directory that is
\* the suffix stays whole)
Stripped(dirs) ==
    LET k == SharedSuffixLen(dirs)
    IN  [i \in 1..Len(dirs) |->
            IF k = 0 \/ k = Len(dirs[i]) THEN dirs[i]
            ELSE SubSeq(dirs[i], 1, Len(dirs[i]) - k)]

ParentDirs(paths) == [i \in 1..Len(paths) |-> get_path_parent(paths[i])]

Sorted(strs) == SortStrings(strs)

FewerThanTwoSegments(dir) == Cardinality({i \in 1..Len(dir) : IsSepChar(dir[i])}) < 2

\* the signature as claimed: the first directory of the sorted signature
\* decides
SignatureBySortedFirst(paths) ==
    IF FewerThanTwoSegments(Sorted(Stripped(ParentDirs(paths)))[1])
    THEN Sorted(ParentDirs(paths))
    ELSE Sorted(Stripped(ParentDirs(paths)))

\* the signature as amended: the directory of the member added first decides
SignatureByFirstAdded(paths) ==
    IF FewerThanTwoSegments(Stripped(ParentDirs(paths))[1])
    THEN Sorted(ParentDirs(paths))
    ELSE Sorted(Stripped(ParentDirs(paths)))

\* C8 as claimed: a group's signature is the sorted tuple of its members'
\* parent directories with the shared trailing suffix stripped, unless that
\* leaves fewer than 2 segments in the first directory of the sorted
\* signature, and then the unstripped sorted tuple; the order in which the
\* members were added plays no part.
C8_SortedFirstDecides ==
    (Called("get_dup_paths") /\ op[3]) =>
        ExactlyTheRepeated(ret, SignatureBySortedFirst)

\* C8 as amended: a group's signature is the sorted tuple of its members'
\* parent directories with the shared trailing suffix stripped, unless that
\* leaves fewer than 2 separators in the directory of the member path that
\* was added first, and then the unstripped sorted tuple; so the decision
\* depends on the order in which the member paths were added.
C8_FirstAddedDecides ==
    (Called("get_dup_paths") /\ op[3]) =>
        ExactlyTheRepeated(ret, SignatureByFirstAdded)

\* a returned signature of groups whose first-added directory and first
\* sorted directory decide differently
C8_Witness ==
    /\ Called("get_dup_paths") /\ op[3]
    /\ \E k \in 1..Len(ret) : \E i \in 1..Len(dups) :
          LET paths == Keys(Holder(db, dups[i]).paths)
          IN  /\ SignatureByFirstAdded(paths) = ret[k][1]
              /\ SignatureBySortedFirst(paths) # ret[k][1]

GitDirs == <<GitDir("1"), GitDir("2"), GitDir("3")>>

GitLoaded == file = FileGit /\ Called("get_dup_paths") /\ dups = <<H1>>

\* C9 as claimed: with p1/.git/o/00/f, p2/.git/o/00/f and p3/.git/o/00/f of
\* one hash, the signature is compressed by the suffix .git/o/00/ and
\* get_dup_paths returns the pattern.
C9_GitPatternReturned ==
    GitLoaded =>
        \E k \in 1..Len(ret) : ret[k][1] = <<<<"p", "1", "/">>, <<"p", "2", "/">>,
                                            <<"p", "3", "/">>>>

\* C9 as amended: with these three files of one hash, stripping .git/o/00/
\* would leave p1/, which has fewer than 2 separators, so the signature stays
\* the three full directories; it occurs in one group only, and get_dup_paths
\* returns nothing.
C9_GitPatternNotReturned ==
    GitLoaded =>
        /\ find_not_common_dir_tuple(Keys(Holder(db, H1).paths)) = GitDirs
        /\ ret = <<>>

C9_Witness == GitLoaded /\ Len(Holder(db, H1).paths) = 3

Unquoted(t) == SubSeq(t, 2, Len(t) - 1)

\* C10: unescape(escape(x)) with its surrounding quotation marks removed is
\* x, and escape(x) holds no space.
C10_RoundTrip ==
    /\ escaped # <<>> => \A i \in 1..Len(escaped[1]) : escaped[1][i] # " "
    /\ unescaped # <<>> =>
          /\ Len(unescaped[1]) >= 2
          /\ unescaped[1][1] = "\"" /\ unescaped[1][Len(unescaped[1])] = "\""
          /\ Unquoted(unescaped[1]) = x

\* a text with a space, a caret and an "s" went through both
C10_Witness ==
    /\ unescaped # <<>>
    /\ \A c \in {" ", "^", "s"} : \E i \in 1..Len(x) : x[i] = c

\* the hashes of the entries best returned, in their order
BestShas == [k \in 1..Len(ret) |-> ret[k][2]]

\* the groups of the index with at least two paths and size*(count-1) > 0
WastingGroups ==
    {db[i].sha : i \in {j \in 1..Len(db) :
                            Len(db[j].paths) >= 2 /\ Wasted1(db[j]) > 0}}

\* the entries of the duplicate list with size*(count-1) > 0, in its order
WastingEntries ==
    Filter(dups, {i \in 1..Len(dups) : Wasted1(Holder(db, dups[i])) > 0})

\* every entry best returned is (size*(count-1), hash, paths) of its group
EachWithItsWasted ==
    \A k \in 1..Len(ret) :
        /\ HasSha(db, ret[k][2])
        /\ ret[k][1] = Wasted1(Holder(db, ret[k][2]))
        /\ ret[k][3] = Keys(Holder(db, ret[k][2]).paths)

\* the duplicate list holds every group of the index with at least two paths
ListIsCurrent ==
    \A i \in 1..Len(db) : Len(db[i].paths) >= 2 => Contains(dups, db[i].sha)

C12_NoEmptyHashGroup ==
    /\ Called("get_sorted_dups") => \A i \in 1..Len(ret) : ret[i].sha # <<>>
    /\ \A k \in 1..Len(dups) : dups[k] # <<>>

===========================================================================
